---- MODULE Spec2Model ----
(***************************************************************************)
(* Truth-table generator (src/truth_table_generator.cpp).                  *)
(*                                                                         *)
(* main reads lines until "quit"; evaluate lexes a line, validates the     *)
(* tokens, prints a header, and for each of the 2^N assignments converts   *)
(* the tokens to postfix and evaluates them on an operand stack.           *)
(*                                                                         *)
(* Strings are sequences of one-character strings.  Indices of the C++     *)
(* code are 0-based; TypeAt and the lexer translate them to TLA+'s 1-based  *)
(* sequences.                                                              *)
(*                                                                         *)
(* Undefined behaviour (a vector read outside its bounds, top()/pop() on   *)
(* an empty std::stack) is modelled as a nondeterministic choice: the      *)
(* process may abort there, or carry on with an arbitrary value read.      *)
(***************************************************************************)
EXTENDS Integers, Sequences, FiniteSets, TLC

VARIABLES
    pc,             \* position of the program
    answer,         \* main: std::string answer
    lines,          \* every line getline has returned, in order
    evaluated,      \* every argument evaluate has been called with, in order
    out,            \* what has been written to std::cout, in order
    expression,     \* evaluate: the parameter
    lexer,          \* evaluate: Lexer lexer (its _tokens and _proposition_tokens)
    tokens,         \* evaluate: std::vector<Token> tokens
    accepted,       \* "pending", "accepted" or "rejected": validateTokenString's answer
    validatorReads, \* the (0-based) indices validateTokenString has read
    propositions,   \* evaluate: std::map<std::string, Token> propositions
    operands,       \* evaluate: std::stack<bool> operands (top is the last element)
    postfix,        \* the value toPostFix(tokens) returned in the current row
    i,              \* evaluate: the row counter
    ub              \* the stacks that top() or pop() was called on while empty

vars == <<pc, answer, lines, evaluated, out, expression, lexer, tokens, accepted,
          validatorReads, propositions, operands, postfix, i, ub>>

----------------------------------------------------------------------------
(* Bounds of the model. *)

\* longest line typed at the prompt in the specification of the whole program
MaxLineLen == 2
\* most lines read in the specification of the whole program
MaxReads == 2
\* longest arbitrary source string handed to one call of evaluate
MaxSrcLen == 3
\* most tokens of a well-formed expression handed to one call of evaluate
MaxExprLen == 5

----------------------------------------------------------------------------
(* Characters. *)

\* the character's code: std::string and std::map compare by it
Ascii(c) ==
    CASE c = " " -> 32 [] c = "!" -> 33 [] c = "(" -> 40 [] c = ")" -> 41
      [] c = "*" -> 42 [] c = "+" -> 43 [] c = "-" -> 45 [] c = "0" -> 48
      [] c = "1" -> 49 [] c = "<" -> 60 [] c = ">" -> 62 [] c = "F" -> 70
      [] c = "T" -> 84 [] c = "^" -> 94 [] c = "i" -> 105 [] c = "p" -> 112
      [] c = "q" -> 113 [] c = "t" -> 116 [] c = "u" -> 117 [] c = "v" -> 118
      [] c = "~" -> 126

\* std::string's operator< : lexicographic by character code
RECURSIVE StrLess(_, _)
StrLess(a, b) ==
    IF b = <<>> THEN FALSE
    ELSE IF a = <<>> THEN TRUE
    ELSE IF Ascii(a[1]) # Ascii(b[1]) THEN Ascii(a[1]) < Ascii(b[1])
    ELSE StrLess(Tail(a), Tail(b))

----------------------------------------------------------------------------
(* class Token *)

\* enum Precedence { L1, L2, L3, L4, L5, NA }
L1 == 0
L2 == 1
L3 == 2
L4 == 3
L5 == 4
NA == 5

Types == {"TRUTH_VALUE", "PROPOSITION", "NEGATION", "CONJUNCTION", "DISJUNCTION",
          "IMPLICATION", "BICONDITIONAL", "LPAREN", "RPAREN"}

Token(type, precedence, value, lexeme) ==
    [type |-> type, precedence |-> precedence, value |-> value, lexeme |-> lexeme]

isOperatorType(type) ==
    type \in {"NEGATION", "CONJUNCTION", "DISJUNCTION", "IMPLICATION", "BICONDITIONAL"}

isOperator(t) == isOperatorType(t.type)

\* does nothing unless the token is a propositional variable
setValue(t, value) ==
    IF t.type = "PROPOSITION" THEN [t EXCEPT !.value = value] ELSE t

----------------------------------------------------------------------------
(* class Lexer.  A lexer state is the record of its fields. *)

\* std::map<std::string, Token>: a function from the keys to their tokens
EmptyMap == << >>

\* std::map::insert: an existing key is left alone
MapInsert(m, key, t) ==
    IF key \in DOMAIN m THEN m ELSE [k \in DOMAIN m \cup {key} |-> IF k = key THEN t ELSE m[k]]

\* the fields as the member initialisers leave them
LexerInit(source) ==
    [_tokens |-> <<>>, _proposition_tokens |-> EmptyMap, _source |-> source,
     _start_position |-> 0, _current_position |-> 0]

endReached(lx) == lx._current_position >= Len(lx._source)

\* the characters from _start_position to _current_position, both included
getCurrentLexeme(lx) ==
    [k \in 1..(lx._current_position - lx._start_position + 1) |->
        lx._source[lx._start_position + k]]

addToken(lx, type, precedence, value) ==
    [lx EXCEPT !._tokens = Append(@, Token(type, precedence, value, getCurrentLexeme(lx)))]

\* matchNext always advances, whether or not the character matches:
\* the pair is the new lexer state and the answer
matchNext(lx, c) ==
    LET moved == [lx EXCEPT !._current_position = @ + 1]
    IN  IF endReached(moved) THEN <<moved, FALSE>>
        ELSE IF moved._source[moved._current_position + 1] # c THEN <<moved, FALSE>>
        ELSE <<moved, TRUE>>

scanToken(lx) ==
    LET c == lx._source[lx._current_position + 1]
        scanned ==
            CASE c = " " -> lx
              [] c \in {"0", "F"} -> addToken(lx, "TRUTH_VALUE", NA, FALSE)
              [] c \in {"1", "T"} -> addToken(lx, "TRUTH_VALUE", NA, TRUE)
              [] c = "(" -> addToken(lx, "LPAREN", NA, FALSE)
              [] c = ")" -> addToken(lx, "RPAREN", NA, FALSE)
              [] c \in {"^", "*"} -> addToken(lx, "CONJUNCTION", L2, FALSE)
              [] c \in {"v", "+"} -> addToken(lx, "DISJUNCTION", L3, FALSE)
              [] c \in {"!", "~"} -> addToken(lx, "NEGATION", L1, FALSE)
              [] c = "-" ->
                    LET m == matchNext(lx, ">")
                    IN  IF m[2] THEN addToken(m[1], "IMPLICATION", L4, FALSE) ELSE m[1]
              [] c = "<" ->
                    LET m1 == matchNext(lx, "-")
                    IN  IF ~m1[2] THEN m1[1]
                        ELSE LET m2 == matchNext(m1[1], ">")
                             IN  IF m2[2] THEN addToken(m2[1], "BICONDITIONAL", L5, FALSE)
                                 ELSE m2[1]
              [] OTHER ->
                    LET added == addToken(lx, "PROPOSITION", NA, FALSE)
                    IN  [added EXCEPT !._proposition_tokens =
                            MapInsert(@, getCurrentLexeme(lx),
                                      Token("PROPOSITION", NA, FALSE, getCurrentLexeme(lx)))]
    IN  [scanned EXCEPT !._current_position = @ + 1]

RECURSIVE scanTokens(_)
scanTokens(lx) ==
    IF endReached(lx) THEN lx
    ELSE scanTokens(scanToken([lx EXCEPT !._start_position = lx._current_position]))

\* the constructor: Lexer(source)
Lexer(source) == scanTokens(LexerInit(source))

----------------------------------------------------------------------------
(* validateTokenString.  tokens[k] for k outside 0..size-1 is a read outside *)
(* the vector: it yields whatever lies there, lo at index -1 and hi at index *)
(* size, each any Type value or a value that is no enumerator.               *)

GarbageTypes == Types \cup {"NOT_A_TYPE"}

\* tokens[k].type(), 0-based
TypeAt(toks, k, lo, hi) ==
    IF k < 0 THEN lo ELSE IF k >= Len(toks) THEN hi ELSE toks[k + 1].type

\* the condition of the case TRUTH_VALUE / PROPOSITION
OperandOk(toks, n, lo, hi) ==
    \/ Len(toks) = 1
    \/ (isOperatorType(TypeAt(toks, n + 1, lo, hi)) /\ ~(TypeAt(toks, n + 1, lo, hi) = "NEGATION"))
    \/ isOperatorType(TypeAt(toks, n - 1, lo, hi))
    \/ TypeAt(toks, n - 1, lo, hi) = "LPAREN"

\* the condition of the case NEGATION
NegationOk(toks, n, lo, hi) ==
    \/ TypeAt(toks, n + 1, lo, hi) = "TRUTH_VALUE"
    \/ TypeAt(toks, n + 1, lo, hi) = "PROPOSITION"
    \/ TypeAt(toks, n + 1, lo, hi) = "LPAREN"
    \/ TypeAt(toks, n + 1, lo, hi) = "NEGATION"
    \/ TypeAt(toks, n - 1, lo, hi) = "LPAREN"
    \/ (isOperatorType(TypeAt(toks, n - 1, lo, hi)) /\ ~(TypeAt(toks, n + 1, lo, hi) = "NEGATION"))

\* the condition of the case CONJUNCTION .. BICONDITIONAL
BinaryOk(toks, n, lo, hi) ==
    \/ TypeAt(toks, n + 1, lo, hi) = "TRUTH_VALUE"
    \/ TypeAt(toks, n + 1, lo, hi) = "PROPOSITION"
    \/ TypeAt(toks, n + 1, lo, hi) = "LPAREN"
    \/ TypeAt(toks, n + 1, lo, hi) = "NEGATION"
    \/ TypeAt(toks, n - 1, lo, hi) = "TRUTH_VALUE"
    \/ TypeAt(toks, n - 1, lo, hi) = "PROPOSITION"
    \/ TypeAt(toks, n - 1, lo, hi) = "RPAREN"

\* the switch of one loop iteration: FALSE where the code sets flag = false
TokenOk(toks, n, lo, hi) ==
    LET type == toks[n + 1].type
    IN  CASE type \in {"TRUTH_VALUE", "PROPOSITION"} -> OperandOk(toks, n, lo, hi)
          [] type = "NEGATION" -> NegationOk(toks, n, lo, hi)
          [] type \in {"CONJUNCTION", "DISJUNCTION", "IMPLICATION", "BICONDITIONAL"} ->
                BinaryOk(toks, n, lo, hi)
          [] OTHER -> TRUE

\* the indices one loop iteration reads besides n itself: || evaluates its
\* right operand only when the left one is false
TokenReads(toks, n, lo, hi) ==
    LET type == toks[n + 1].type
        next == TypeAt(toks, n + 1, lo, hi)
    IN  CASE type \in {"TRUTH_VALUE", "PROPOSITION"} ->
                IF Len(toks) = 1 THEN {}
                ELSE IF isOperatorType(next) /\ ~(next = "NEGATION") THEN {n + 1}
                ELSE {n + 1, n - 1}
          [] type \in {"NEGATION", "CONJUNCTION", "DISJUNCTION", "IMPLICATION", "BICONDITIONAL"} ->
                IF next \in {"TRUTH_VALUE", "PROPOSITION", "LPAREN", "NEGATION"} THEN {n + 1}
                ELSE {n + 1, n - 1}
          [] OTHER -> {}

\* the value returned: flag
validateTokenString(toks, lo, hi) ==
    \A n \in 0..(Len(toks) - 1) : TokenOk(toks, n, lo, hi)

\* every index the call reads
validateReads(toks, lo, hi) ==
    (0..(Len(toks) - 1)) \cup UNION {TokenReads(toks, n, lo, hi) : n \in 0..(Len(toks) - 1)}

\* what one call can do: its answer and its reads, for every pair of values the
\* two places outside the vector can hold
validateOutcomes(toks) ==
    {[flag |-> validateTokenString(toks, lo, hi), reads |-> validateReads(toks, lo, hi)] :
        lo \in GarbageTypes, hi \in GarbageTypes}

----------------------------------------------------------------------------
(* toPostFix.  A stack is a sequence whose last element is the top.  The     *)
(* result is [output, ub]: ub says that operators.top() was called on the    *)
(* empty stack (the case RPAREN without a LPAREN below it); the loop is then *)
(* taken to end there, as if the value read were a LPAREN.                   *)

Top(stack) == stack[Len(stack)]
Pop(stack) == SubSeq(stack, 1, Len(stack) - 1)

\* the comparison a left-associating shunting yard would make
PopsForOperatorOnTie(t, top) == t.precedence >= top.precedence

\* the loop condition of the operator case, the stack being non-empty
PopsForOperator(t, top) == t.precedence > top.precedence

RECURSIVE PopOperators(_, _, _)
PopOperators(t, operators, output) ==
    IF operators # <<>> /\ PopsForOperator(t, Top(operators))
    THEN PopOperators(t, Pop(operators), Append(output, Top(operators)))
    ELSE [operators |-> operators, output |-> output, ub |-> FALSE]

RECURSIVE PopToLParen(_, _)
PopToLParen(operators, output) ==
    IF operators = <<>> THEN [operators |-> <<>>, output |-> output, ub |-> TRUE]
    ELSE IF Top(operators).type # "LPAREN"
    THEN PopToLParen(Pop(operators), Append(output, Top(operators)))
    ELSE [operators |-> Pop(operators), output |-> output, ub |-> FALSE]

RECURSIVE PopAll(_, _)
PopAll(operators, output) ==
    IF operators = <<>> THEN output
    ELSE PopAll(Pop(operators), Append(output, Top(operators)))

RECURSIVE toPostFixLoop(_, _, _, _)
toPostFixLoop(rest, operators, output, bad) ==
    IF rest = <<>> THEN [output |-> PopAll(operators, output), ub |-> bad]
    ELSE LET t == Head(rest)
         IN  IF isOperator(t)
             THEN LET r == PopOperators(t, operators, output)
                  IN  toPostFixLoop(Tail(rest), Append(r.operators, t), r.output, bad)
             ELSE IF t.type = "LPAREN"
             THEN toPostFixLoop(Tail(rest), Append(operators, t), output, bad)
             ELSE IF t.type = "RPAREN"
             THEN LET r == PopToLParen(operators, output)
                  IN  toPostFixLoop(Tail(rest), r.operators, r.output, bad \/ r.ub)
             ELSE toPostFixLoop(Tail(rest), operators, Append(output, t), bad)

toPostFix(toks) == toPostFixLoop(toks, <<>>, <<>>, FALSE)

----------------------------------------------------------------------------
(* The rows of evaluate. *)

RECURSIVE Pow2(_)
Pow2(n) == IF n = 0 THEN 1 ELSE 2 * Pow2(n - 1)

\* (x >> k) & 1
Bit(x, k) == (x \div Pow2(k)) % 2

\* the order of a map whose comparison is reversed: descending keys
RECURSIVE MapOrderReversed(_)
MapOrderReversed(keys) ==
    IF keys = {} THEN <<>>
    ELSE LET greatest == CHOOSE k \in keys : \A other \in keys \ {k} : StrLess(other, k)
         IN  <<greatest>> \o MapOrderReversed(keys \ {greatest})

\* the order in which a range-for visits the map: ascending keys
RECURSIVE MapOrder(_)
MapOrder(keys) ==
    IF keys = {} THEN <<>>
    ELSE LET least == CHOOSE k \in keys : \A other \in keys \ {k} : StrLess(k, other)
         IN  <<least>> \o MapOrder(keys \ {least})

\* the keys of a map in the order its iteration visits them
MapKeys(m) == MapOrder(DOMAIN m)

\* the assignment loop of row r: j counts down from size - 1 as the map is visited
Assign(props, r) ==
    LET order == MapKeys(props)
        size == Len(order)
    IN  [k \in DOMAIN props |->
            LET pos == CHOOSE n \in 1..size : order[n] = k
            IN  setValue(props[k], ~(1 = Bit(r, (size - 1) - (pos - 1))))]

\* the values printed by the assignment loop, left to right
AssignedValues(props) == [n \in 1..Len(MapKeys(props)) |-> props[MapKeys(props)[n]].value]

\* solveUnary / solveBinary on the operand stack: [stack, ub].  top() or pop()
\* on the empty stack sets ub: the value read is then g and pop() has no effect.
TopOr(stack, g) == IF stack = <<>> THEN g ELSE Top(stack)
PopOr(stack) == IF stack = <<>> THEN <<>> ELSE Pop(stack)

Implies(left, right) == (~left) \/ right

ApplyBinary(type, left, right) ==
    CASE type = "CONJUNCTION" -> left /\ right
      [] type = "DISJUNCTION" -> left \/ right
      [] type = "IMPLICATION" -> Implies(left, right)
      [] type = "BICONDITIONAL" -> left = right

\* one iteration of the evaluation loop
EvalToken(t, props, st, g) ==
    CASE t.type = "TRUTH_VALUE" -> [stack |-> Append(st.stack, t.value), ub |-> st.ub]
      [] t.type = "PROPOSITION" -> [stack |-> Append(st.stack, props[t.lexeme].value), ub |-> st.ub]
      [] t.type = "NEGATION" ->
            [stack |-> Append(PopOr(st.stack), ~TopOr(st.stack, g)),
             ub |-> st.ub \/ st.stack = <<>>]
      [] t.type \in {"CONJUNCTION", "DISJUNCTION", "IMPLICATION", "BICONDITIONAL"} ->
            LET right == TopOr(st.stack, g)
                s1 == PopOr(st.stack)
                left == TopOr(s1, g)
                s2 == PopOr(s1)
            IN  [stack |-> Append(s2, ApplyBinary(t.type, left, right)),
                 ub |-> st.ub \/ Len(st.stack) < 2]
      [] OTHER -> st

RECURSIVE EvalPostfix(_, _, _, _)
EvalPostfix(pf, props, st, g) ==
    IF pf = <<>> THEN st
    ELSE EvalPostfix(Tail(pf), props, EvalToken(Head(pf), props, st, g), g)

----------------------------------------------------------------------------
(* Standard output, one record per item written. *)

OutItem(kind, names, vals, text) == [kind |-> kind, names |-> names, vals |-> vals, text |-> text]

OutPrompt == OutItem("prompt", <<>>, <<>>, <<>>)
OutInvalid == OutItem("invalid", <<>>, <<>>, <<>>)
OutHeader(names, text) == OutItem("header", names, <<>>, text)
OutBindings(vals) == OutItem("bindings", <<>>, vals, <<>>)
OutResult(val) == OutItem("result", <<>>, <<val>>, <<>>)
OutBlank == OutItem("blank", <<>>, <<>>, <<>>)

----------------------------------------------------------------------------
(* Inputs. *)

Strings(chars, n) == UNION {[1..k -> chars] : k \in 0..n}

QuitLine == <<"q", "u", "i", "t">>

\* the lines typed at the prompt of the whole program
LoopChars == {"p", "^"}
Lines == Strings(LoopChars, MaxLineLen) \cup {QuitLine}

\* arbitrary source strings
SrcChars == {"p", "q", "F", "~", "^", "-", ">", "<", "(", ")", " "}
Sources == Strings(SrcChars, MaxSrcLen)

\* the well-formed expressions of exactly n tokens, written without spaces:
\*   E ::= atom | ~E | (E) | E op E
Atoms == {<<"F">>, <<"T">>, <<"p">>, <<"q">>}
BinaryLexemes == {<<"^">>, <<"v">>, <<"-", ">">>, <<"<", "-", ">">>}

RECURSIVE ExprsOfSize(_)
ExprsOfSize(n) ==
    IF n = 1 THEN Atoms
    ELSE {<<"~">> \o e : e \in ExprsOfSize(n - 1)}
         \cup (IF n < 3 THEN {}
               ELSE {<<"(">> \o e \o <<")">> : e \in ExprsOfSize(n - 2)}
                    \cup UNION {{a \o op \o b : a \in ExprsOfSize(k), op \in BinaryLexemes,
                                                b \in ExprsOfSize(n - 1 - k)} : k \in 1..(n - 2)})

Exprs == UNION {ExprsOfSize(n) : n \in 1..MaxExprLen}

----------------------------------------------------------------------------
(* The program. *)

\* the locals of evaluate before its first statement
FreshCall ==
    /\ lexer = LexerInit(<<>>)
    /\ tokens = <<>>
    /\ accepted = "pending"
    /\ validatorReads = {}
    /\ propositions = EmptyMap
    /\ operands = <<>>
    /\ postfix = <<>>
    /\ i = 0
    /\ ub = {}

\* the same on entry to a call
EnterCall ==
    /\ lexer' = LexerInit(<<>>)
    /\ tokens' = <<>>
    /\ accepted' = "pending"
    /\ validatorReads' = {}
    /\ propositions' = EmptyMap
    /\ operands' = <<>>
    /\ postfix' = <<>>
    /\ i' = 0
    /\ ub' = {}

locals == <<lexer, tokens, accepted, validatorReads, propositions, operands, postfix, i, ub>>
io == <<answer, lines, evaluated>>

Init ==
    /\ pc = "main_loop"
    /\ answer = <<>>
    /\ lines = <<>>
    /\ evaluated = <<>>
    /\ out = <<>>
    /\ expression = <<>>
    /\ FreshCall

\* a loop that never compares with "quit"
LoopNeverStops(a) == TRUE

\* the condition of main's while
LoopContinues(a) == a # QuitLine

\* main: while(answer != "quit") evaluate(answer);
MainLoop ==
    /\ pc = "main_loop"
    /\ IF LoopContinues(answer)
       THEN /\ pc' = "evaluate"
            /\ expression' = answer
            /\ evaluated' = Append(evaluated, answer)
            /\ EnterCall
       ELSE /\ pc' = "exit"
            /\ UNCHANGED <<expression, evaluated, locals>>
    /\ UNCHANGED <<answer, lines, out>>

\* main: the prompt and getline
PromptAndRead ==
    /\ pc = "main_prompt"
    /\ Len(lines) < MaxReads
    /\ \E line \in Lines :
          /\ answer' = line
          /\ lines' = Append(lines, line)
    /\ out' = Append(out, OutPrompt)
    /\ pc' = "main_loop"
    /\ UNCHANGED <<evaluated, expression, locals>>

\* evaluate: the empty check, the Lexer and the copy of its tokens
EvaluateBegin ==
    /\ pc = "evaluate"
    /\ IF expression = <<>>
       THEN /\ pc' = "main_prompt"
            /\ UNCHANGED <<lexer, tokens>>
       ELSE /\ lexer' = Lexer(expression)
            /\ tokens' = lexer'._tokens
            /\ pc' = "validate"
    /\ UNCHANGED <<io, out, expression, accepted, validatorReads, propositions,
                   operands, postfix, i, ub>>

\* evaluate: if(!validateTokenString(tokens)) { "Invalid expression!"; return; }
Validate ==
    /\ pc = "validate"
    /\ \E call \in validateOutcomes(tokens) :
          /\ validatorReads' = call.reads
          /\ \/ /\ call.flag
                /\ accepted' = "accepted"
                /\ pc' = "header"
                /\ out' = out
             \/ /\ ~call.flag
                /\ accepted' = "rejected"
                /\ pc' = "main_prompt"
                /\ out' = Append(out, OutInvalid)
             \/ /\ ~(call.reads \subseteq 0..(Len(tokens) - 1))
                /\ accepted' = accepted
                /\ pc' = "aborted"
                /\ out' = out
    /\ UNCHANGED <<io, expression, lexer, tokens, propositions, operands, postfix, i, ub>>

\* evaluate: the copy of the registry and the header line
Header ==
    /\ pc = "header"
    /\ propositions' = lexer._proposition_tokens
    /\ out' = Append(out, OutHeader(MapKeys(propositions'), expression))
    /\ i' = 0
    /\ pc' = "row"
    /\ UNCHANGED <<io, expression, lexer, tokens, accepted, validatorReads, operands,
                   postfix, ub>>

\* evaluate: one row up to the end of the postfix loop
RowEvaluate ==
    /\ pc = "row"
    /\ i < Pow2(Cardinality(DOMAIN propositions))
    /\ propositions' = Assign(propositions, i)
    /\ out' = Append(out, OutBindings(AssignedValues(propositions')))
    /\ LET pf == toPostFix(tokens)
       IN  \E g \in BOOLEAN :
             LET ev == EvalPostfix(pf.output, propositions', [stack |-> operands, ub |-> FALSE], g)
                 hit == (IF pf.ub THEN {"operators"} ELSE {}) \cup (IF ev.ub THEN {"operands"} ELSE {})
             IN  \/ /\ postfix' = pf.output
                    /\ operands' = ev.stack
                    /\ ub' = ub \cup hit
                    /\ pc' = "row_print"
                 \/ /\ pf.ub
                    /\ ub' = ub \cup {"operators"}
                    /\ pc' = "aborted"
                    /\ UNCHANGED <<postfix, operands>>
                 \/ /\ ev.ub
                    /\ postfix' = pf.output
                    /\ ub' = ub \cup hit
                    /\ pc' = "aborted"
                    /\ UNCHANGED operands
    /\ UNCHANGED <<io, expression, lexer, tokens, accepted, validatorReads, i>>

\* evaluate: the result column, operands.pop() and ++i
RowPrint ==
    /\ pc = "row_print"
    /\ \/ /\ operands # <<>>
          /\ out' = Append(out, OutResult(Top(operands)))
          /\ operands' = Pop(operands)
          /\ i' = i + 1
          /\ pc' = "row"
          /\ ub' = ub
       \/ /\ operands = <<>>
          /\ \E g \in BOOLEAN : out' = Append(out, OutResult(g))
          /\ operands' = <<>>
          /\ i' = i + 1
          /\ pc' = "row"
          /\ ub' = ub \cup {"operands"}
       \/ /\ operands = <<>>
          /\ pc' = "aborted"
          /\ ub' = ub \cup {"operands"}
          /\ UNCHANGED <<out, operands, i>>
    /\ UNCHANGED <<io, expression, lexer, tokens, accepted, validatorReads, propositions,
                   postfix>>

\* evaluate: the end of the row loop, the closing blank line and the return
Finish ==
    /\ pc = "row"
    /\ ~(i < Pow2(Cardinality(DOMAIN propositions)))
    /\ out' = Append(out, OutBlank)
    /\ pc' = "main_prompt"
    /\ UNCHANGED <<io, expression, locals>>

\* one call of evaluate
EvaluateNext == EvaluateBegin \/ Validate \/ Header \/ RowEvaluate \/ RowPrint \/ Finish

Next == MainLoop \/ PromptAndRead \/ EvaluateNext

\* the whole program, over short lines
Spec == Init /\ [][Next]_vars

\* one call evaluate(expression), main having read expression at its first prompt
EvaluateInputs == Sources \cup Exprs

InitEvaluate ==
    /\ pc = "evaluate"
    /\ expression \in EvaluateInputs
    /\ answer = expression
    /\ lines = <<expression>>
    /\ evaluated = << <<>>, expression >>
    /\ out = <<OutPrompt>>
    /\ FreshCall

\* one call of evaluate, over arbitrary sources and well-formed expressions
SpecEvaluate == InitEvaluate /\ [][EvaluateNext]_vars

----------------------------------------------------------------------------
(* Vocabulary of the properties. *)

BinaryTypes == {"CONJUNCTION", "DISJUNCTION", "IMPLICATION", "BICONDITIONAL"}

\* positions of the tokens of the given types
Positions(toks, types) == {k \in 1..Len(toks) : toks[k].type \in types}

\* how many parentheses are open before position k
DepthBefore(toks, k) ==
    Cardinality({j \in 1..(k - 1) : toks[j].type = "LPAREN"})
        - Cardinality({j \in 1..(k - 1) : toks[j].type = "RPAREN"})

Balanced(toks) ==
    /\ \A k \in 1..(Len(toks) + 1) : DepthBefore(toks, k) >= 0
    /\ DepthBefore(toks, Len(toks) + 1) = 0

HasEmptyParens(toks) ==
    \E k \in 1..(Len(toks) - 1) : toks[k].type = "LPAREN" /\ toks[k + 1].type = "RPAREN"

\* E ::= atom | ~E | (E) | E op E, recognised left to right: an operand is
\* wanted at the start and after an operator or a "(", an operator elsewhere
RECURSIVE WellFormedFrom(_, _, _, _)
WellFormedFrom(toks, k, wantOperand, depth) ==
    IF k > Len(toks) THEN ~wantOperand /\ depth = 0
    ELSE LET type == toks[k].type
         IN  IF wantOperand
             THEN CASE type \in {"TRUTH_VALUE", "PROPOSITION"} ->
                            WellFormedFrom(toks, k + 1, FALSE, depth)
                    [] type = "NEGATION" -> WellFormedFrom(toks, k + 1, TRUE, depth)
                    [] type = "LPAREN" -> WellFormedFrom(toks, k + 1, TRUE, depth + 1)
                    [] OTHER -> FALSE
             ELSE CASE type \in BinaryTypes -> WellFormedFrom(toks, k + 1, TRUE, depth)
                    [] type = "RPAREN" ->
                            depth > 0 /\ WellFormedFrom(toks, k + 1, FALSE, depth - 1)
                    [] OTHER -> FALSE

WellFormed(toks) == WellFormedFrom(toks, 1, TRUE, 0)

\* how tightly a binary operator binds: Conjunction > Disjunction > Implication >
\* Biconditional
Binding(type) ==
    CASE type = "CONJUNCTION" -> 4
      [] type = "DISJUNCTION" -> 3
      [] type = "IMPLICATION" -> 2
      [] type = "BICONDITIONAL" -> 1

Meaning(type, left, right) ==
    CASE type = "CONJUNCTION" -> left /\ right
      [] type = "DISJUNCTION" -> left \/ right
      [] type = "IMPLICATION" -> (left => right)
      [] type = "BICONDITIONAL" -> (left <=> right)

\* the value of a well-formed expression under the bindings of props: the
\* expression splits at its loosest binary operator outside parentheses, and at
\* the leftmost of these (equal operators group right-to-left); without one it is
\* a negation, a parenthesised expression or an atom
RECURSIVE Value(_, _)
Value(toks, props) ==
    LET outer == {k \in Positions(toks, BinaryTypes) : DepthBefore(toks, k) = 0}
    IN  IF outer # {}
        THEN LET loosest == {k \in outer : \A o \in outer :
                                Binding(toks[k].type) <= Binding(toks[o].type)}
                 k == CHOOSE m \in loosest : \A o \in loosest : m <= o
             IN  Meaning(toks[k].type, Value(SubSeq(toks, 1, k - 1), props),
                         Value(SubSeq(toks, k + 1, Len(toks)), props))
        ELSE IF toks[1].type = "NEGATION" THEN ~Value(Tail(toks), props)
        ELSE IF toks[1].type = "LPAREN" THEN Value(SubSeq(toks, 2, Len(toks) - 1), props)
        ELSE IF toks[1].type = "TRUTH_VALUE" THEN toks[1].lexeme[1] \in {"1", "T"}
        ELSE props[toks[1].lexeme].value

\* the items of the given kind written so far
Written(kind) == SelectSeq(out, LAMBDA item : item.kind = kind)

\* the distinct variable names of the tokens
Variables(toks) == {toks[k].lexeme : k \in Positions(toks, {"PROPOSITION"})}

\* the variable names in the order of their first occurrence
RECURSIVE FirstOccurrence(_, _)
FirstOccurrence(toks, seen) ==
    IF toks = <<>> THEN <<>>
    ELSE IF Head(toks).type = "PROPOSITION" /\ Head(toks).lexeme \notin seen
    THEN <<Head(toks).lexeme>> \o FirstOccurrence(Tail(toks), seen \cup {Head(toks).lexeme})
    ELSE FirstOccurrence(Tail(toks), seen)

\* how often token t occurs in toks
Count(toks, t) == Cardinality({k \in 1..Len(toks) : toks[k] = t})

\* the 0-based positions at which scanToken starts
RECURSIVE StartPositions(_)
StartPositions(lx) ==
    IF endReached(lx) THEN {}
    ELSE {lx._current_position}
         \cup StartPositions(scanToken([lx EXCEPT !._start_position = lx._current_position]))

\* source without its character at 0-based position k
Without(source, k) == SubSeq(source, 1, k) \o SubSeq(source, k + 2, Len(source))

\* the positions where scanToken meets a "-" that no ">" follows
LoneDashes(source) ==
    {k \in StartPositions(LexerInit(source)) :
        /\ source[k + 1] = "-"
        /\ (k + 1 >= Len(source) \/ source[k + 2] # ">")}

----------------------------------------------------------------------------
(* Properties. *)

\* C1: for a well-formed expression, the value that toPostFix followed by the
\* operand-stack evaluation leaves on top of the stack in each row is the value
\* of the expression parsed with precedence Negation > Conjunction > Disjunction
\* > Implication > Biconditional, equal binary operators grouping right-to-left;
\* no stack is read while empty on the way.
C1_PostfixValue ==
    (pc = "row_print" /\ WellFormed(tokens)) =>
        /\ ub = {}
        /\ operands # <<>>
        /\ Top(operands) = Value(tokens, propositions)

\* C1 witness: p -> q -> F in a row binding p to false evaluates to true, the
\* value of p -> (q -> F) and not of (p -> q) -> F.
C1_Witness ==
    /\ pc = "row_print"
    /\ expression = <<"p", "-", ">", "q", "-", ">", "F">>
    /\ ~propositions[<<"p">>].value
    /\ Top(operands) = TRUE

\* C2 (as claimed): validateTokenString accepts only if every binary operator has
\* both a next token that is a literal, variable, "(" or negation and a previous
\* token that is a literal, variable or ")"; p ^ prints no header and no row.
C2_BinaryNeedsBothNeighbours ==
    /\ accepted = "accepted" =>
          \A k \in Positions(tokens, BinaryTypes) :
             /\ k < Len(tokens)
             /\ tokens[k + 1].type \in {"TRUTH_VALUE", "PROPOSITION", "LPAREN", "NEGATION"}
             /\ k > 1
             /\ tokens[k - 1].type \in {"TRUTH_VALUE", "PROPOSITION", "RPAREN"}
    /\ expression = <<"p", " ", "^">> =>
          /\ accepted # "accepted"
          /\ Written("header") = <<>> /\ Written("bindings") = <<>> /\ Written("result") = <<>>

\* C3 (as claimed): an input with unbalanced parentheses or with an empty pair ()
\* is not accepted by validateTokenString: toPostFix and the rows never run on it,
\* and when evaluate returns it has written the invalid-expression message only.
C3_BadParenthesesRejected ==
    (~Balanced(tokens) \/ HasEmptyParens(tokens)) =>
        /\ accepted # "accepted"
        /\ pc \notin {"header", "row", "row_print"}
        /\ pc = "main_prompt" => Written("invalid") = <<OutInvalid>> /\ Written("header") = <<>>

\* C4 (as claimed): for an accepted token sequence no row reads or pops the empty
\* operand stack, and when the postfix sequence has been consumed exactly one
\* value is on the stack.
C4_NoUnderflowOneValue ==
    accepted = "accepted" =>
        /\ "operands" \notin ub
        /\ pc = "row_print" => Len(operands) = 1

\* C5 (as claimed): an accepted expression with N distinct variables gets exactly
\* 2^N rows, row r binding the variable of column j to not(bit (N-1-j) of r).
C5_TableRows ==
    accepted = "accepted" =>
        LET N == Cardinality(Variables(tokens))
        IN  /\ \A r \in 1..Len(Written("bindings")) :
                  /\ Len(Written("bindings")[r].vals) = N
                  /\ \A j \in 1..N :
                        Written("bindings")[r].vals[j] = ~(((r - 1) \div (2 ^ (N - j))) % 2 = 1)
            /\ pc \in {"main_prompt", "aborted"} =>
                  /\ Len(Written("result")) = 2 ^ N
                  /\ Len(Written("bindings")) = 2 ^ N

\* C6 (as claimed): the header lists the variables in the order of their first
\* occurrence in the source text.
C6_ColumnsFirstOccurrence ==
    \A k \in 1..Len(out) :
        out[k].kind = "header" => out[k].names = FirstOccurrence(tokens, {})

\* C6 (amended): the header lists every variable of the expression once, in
\* ascending order of character code, and each data row lists the values bound
\* to the variables in that same order.
C6_ColumnsAscending ==
    /\ \A k \in 1..Len(out) :
          out[k].kind = "header" =>
             /\ {out[k].names[n] : n \in 1..Len(out[k].names)} = Variables(tokens)
             /\ \A a, b \in 1..Len(out[k].names) :
                   a < b => Ascii(out[k].names[a][1]) < Ascii(out[k].names[b][1])
    /\ pc = "row_print" =>
          LET names == Written("header")[1].names
              row == out[Len(out)]
          IN  /\ row.kind = "bindings"
              /\ Len(row.vals) = Len(names)
              /\ \A n \in 1..Len(names) : row.vals[n] = propositions[names[n]].value

\* C6 witness: q ^ p has printed the header p q and a data row.
C6_Witness ==
    /\ pc = "row_print"
    /\ expression = <<"q", "^", "p">>
    /\ Written("header")[1].names = << <<"p">>, <<"q">> >>
    /\ propositions[<<"p">>].value # propositions[<<"q">>].value

\* the lines read except the last one
AllButLast(seq) == SubSeq(seq, 1, Len(seq) - 1)

\* C7, in every state: "quit" is never passed to evaluate; nothing is read after a
\* "quit"; the program has exited only after reading "quit", and after reading it
\* does nothing but exit; and the arguments of evaluate, after the first call made
\* with the initial empty answer, are the lines read that are not "quit", once
\* each and in the order read (the line just read is passed on main's next step).
C7_State ==
    /\ \A k \in 1..Len(evaluated) : evaluated[k] # QuitLine
    /\ \A k \in 1..(Len(lines) - 1) : lines[k] # QuitLine
    /\ pc = "exit" => (lines # <<>> /\ lines[Len(lines)] = QuitLine)
    /\ (lines # <<>> /\ lines[Len(lines)] = QuitLine) => pc \in {"main_loop", "exit"}
    /\ evaluated # <<>> => evaluated[1] = <<>>
    /\ LET calls == IF evaluated = <<>> THEN <<>> ELSE Tail(evaluated)
       IN  IF pc \in {"main_loop", "exit"} /\ lines # <<>>
           THEN calls = AllButLast(lines)
           ELSE calls = lines

\* C7, in every step: a call that finds the line empty, rejects it or has printed
\* its table returns to the prompt; the step after a return writes the prompt
\* and reads the next line; a line read that is "quit" ends the loop and any
\* other line read is passed to evaluate.
C7_Step ==
    /\ (pc = "evaluate" /\ expression = <<>>) => pc' = "main_prompt"
    /\ (pc = "validate" /\ accepted' = "rejected") => pc' = "main_prompt"
    /\ (pc = "row" /\ i = 2 ^ Cardinality(Variables(tokens))) => pc' = "main_prompt"
    /\ pc = "main_prompt" =>
          /\ out' = Append(out, OutPrompt)
          /\ lines' = Append(lines, answer')
          /\ pc' = "main_loop"
    /\ (pc = "main_loop" /\ answer = QuitLine) => (pc' = "exit" /\ evaluated' = evaluated)
    /\ (pc = "main_loop" /\ answer # QuitLine) =>
          (pc' = "evaluate" /\ expression' = answer /\ evaluated' = Append(evaluated, answer))

C8_ReadsInRange == validatorReads \subseteq 0..(Len(tokens) - 1)

\* C9 (as claimed): for an accepted token sequence the postfix sequence holds no
\* parenthesis, and holds every other token as often as the input does.
C9_PostfixTokens ==
    pc = "row_print" =>
        /\ Positions(postfix, {"LPAREN", "RPAREN"}) = {}
        /\ \A k \in Positions(tokens, Types \ {"LPAREN", "RPAREN"}) :
              Count(postfix, tokens[k]) = Count(tokens, tokens[k])
        /\ Len(postfix) = Cardinality(Positions(tokens, Types \ {"LPAREN", "RPAREN"}))

\* C10 (as claimed): a "-" that no ">" follows is the only character dropped: the
\* tokens and the registry are those of the source without that "-".
C10_OnlyDashDropped ==
    pc \notin {"main_loop", "evaluate"} =>
        \A k \in LoneDashes(expression) :
            /\ lexer._tokens = Lexer(Without(expression, k))._tokens
            /\ lexer._proposition_tokens = Lexer(Without(expression, k))._proposition_tokens

====
